---- MODULE Spec2Model ----
(***************************************************************************)
(* A model of src/batch-analyzer.js: the batch driver that discovers video *)
(* files under a directory, skips the ones already analysed, runs the      *)
(* external analyzer on the others one at a time, and writes a JSON batch  *)
(* report.                                                                 *)
(*                                                                         *)
(* Paths are records [dir, name]: dir is the sequence of directory         *)
(* segments as path.join/path.normalize leave them (the empty sequence is  *)
(* a path with no directory component, as path.join(".", f) returns f),    *)
(* name is the file name cut into tokens, a stem followed by its dotted    *)
(* extensions (<<"a", ".mp4", ".txt">> is "a.mp4.txt").  Two paths are the *)
(* same string exactly when the records are equal.                         *)
(***************************************************************************)
EXTENDS Integers, Sequences, FiniteSets, TLC

\* ------------------------------------------------------------------ bounds
\* At most MaxFiles video files exist under the scanned directory.
MaxFiles == 2
\* The command is run at most MaxRuns times in a row over the same directory.
MaxRuns == 2
\* The clock units one analyzer invocation takes; nothing else takes time.
AnalyzerTime == 1

\* The progress bar taken alone: the largest total and the longest item.
MaxTotal == 4
MaxItemTime == 2

\* ------------------------------------------------------------------ values
Undefined == "undefined"
Null == "null"

\* process.cwd(), the scan root when no directory argument is given.
Cwd == "/data"

\* The directory arguments tried: none, the relative "." and a relative name.
DirectoryArgs == {Null, ".", "VIDEOS"}

\* The segments path.join keeps of a root directory string.
Segments(dirString) ==
    CASE dirString = "." -> <<>>
      [] dirString = "VIDEOS" -> <<"VIDEOS">>
      [] OTHER -> <<dirString>>

Path(dir, name) == [dir |-> dir, name |-> name]

\* path.join(dir, file) for a single-segment file.
join(dir, name) == Path(dir, name)

\* path.join(dir, sub) for a subdirectory: the directory's own segments.
joinDir(dir, sub) == dir \o sub

\* path.dirname(p)
dirname(p) == p.dir

\* path.basename(p, ext): the last segment, without ext when it ends with ext
\* (compared case-sensitively) and is longer than ext.
basename(p, ext) ==
    IF Len(p.name) > 1 /\ p.name[Len(p.name)] = ext
    THEN SubSeq(p.name, 1, Len(p.name) - 1)
    ELSE p.name

\* baseName !== videoPath compares two strings: a bare name equals a path only
\* when the path has no directory component and the same tokens.
SameString(tokens, p) == p.dir = <<>> /\ p.name = tokens

\* String.prototype.toLowerCase on one token.
toLowerCase(tok) ==
    CASE tok = ".MP4" -> ".mp4"
      [] tok = ".Mp4" -> ".mp4"
      [] tok = ".TXT" -> ".txt"
      [] OTHER -> tok

\* file.toLowerCase().endsWith('.mp4')
endsWithMp4(name) == Len(name) > 0 /\ toLowerCase(name[Len(name)]) = ".mp4"

\* path.relative(targetDir, p): p lies under root, so the root's segments go.
relative(root, p) == Path(SubSeq(p.dir, Len(root) + 1, Len(p.dir)), p.name)

\* --------------------------------------------------------------- universe
SubDir == <<"sub">>

\* The video files that may exist, relative to the scan root.
VideoUniverse(root) ==
    { Path(root, <<"a", ".mp4">>),
      Path(root, <<"a", ".MP4">>),
      Path(joinDir(root, SubDir), <<"b", ".mp4">>) }

\* The text files that may exist before the first run.
TxtUniverse(root) ==
    { Path(root, <<"a", ".txt">>),
      Path(root, <<"a", ".mp4", ".txt">>),
      Path(joinDir(root, SubDir), <<"b", ".mp4", ".txt">>) }

MaxClock == MaxRuns * (MaxFiles + 1) * AnalyzerTime

ReportName(t) == <<"batch-analysis-report-", ToString(t), ".json">>

\* The order in which a directory listing returns its entries.
EntryOrder ==
    << <<"a", ".mp4">>, <<"a", ".txt">>, SubDir, <<"a", ".MP4">>,
       <<"a", ".mp4", ".txt">>, <<"b", ".mp4">>, <<"b", ".mp4", ".txt">> >>
    \o [t \in 1..(MaxClock + 1) |-> ReportName(t - 1)]

\* ------------------------------------------------------------- file system
\* fs is the set of paths of the regular files that exist.  A directory
\* exists when it is the scan root or some file lies in it or below it.
IsPrefix(d, e) == Len(d) <= Len(e) /\ SubSeq(e, 1, Len(d)) = d

isFile(p, fsNow) == p \in fsNow

isDirectory(d, fsNow) == \E f \in fsNow : IsPrefix(d, f.dir)

\* fs.readdir(dir): the names of the entries of dir, in listing order.
readdir(dir, fsNow) ==
    SelectSeq(EntryOrder,
              LAMBDA e : join(dir, e) \in fsNow \/ isDirectory(joinDir(dir, e), fsNow))

\* fs.access(filePath) succeeds or throws; fileExists turns that into a boolean.
fileExists(filePath, fsNow) == filePath \in fsNow

\* The faults a scan can meet: directories whose listing fails, entries whose
\* stat fails.
NoFault == [unreadable |-> {}, statFail |-> {}]

Faults(root, fsNow) ==
    {NoFault}
    \cup { [unreadable |-> {d}, statFail |-> {}] : d \in {root, joinDir(root, SubDir)} }
    \cup { [unreadable |-> {}, statFail |-> {f}] : f \in fsNow \cap VideoUniverse(root) }

NoScan == [files |-> <<>>, listed |-> <<>>]

\* getMP4Files.scanDirectory: a failing readdir or stat throws inside the try
\* block, so the catch ends the scan of that directory; the files pushed
\* before stay in mp4Files.  listed records the readdir calls made.
RECURSIVE scanDirectory(_, _, _, _), scanEntries(_, _, _, _, _, _)
scanDirectory(dir, recursive, fsNow, bad) ==
    IF dir \in bad.unreadable
    THEN [files |-> <<>>, listed |-> <<dir>>]
    ELSE LET r == scanEntries(dir, readdir(dir, fsNow), 1, recursive, fsNow, bad)
         IN  [files |-> r.files, listed |-> <<dir>> \o r.listed]

\* The loop over the entries with the listing failure of a subdirectory
\* reaching the parent's catch: the entries after that subdirectory are lost.
scanEntriesAbort(dir, files, k, recursive, fsNow, bad) ==
    IF k > Len(files)
    THEN NoScan
    ELSE LET file == files[k]
             fullPath == join(dir, file)
             rest == scanEntries(dir, files, k + 1, recursive, fsNow, bad)
         IN  IF fullPath \in bad.statFail
             THEN NoScan
             ELSE IF isDirectory(joinDir(dir, file), fsNow) /\ recursive
             THEN LET sub == scanDirectory(joinDir(dir, file), recursive, fsNow, bad)
                  IN  IF joinDir(dir, file) \in bad.unreadable
                      THEN sub
                      ELSE [files |-> sub.files \o rest.files,
                            listed |-> sub.listed \o rest.listed]
             ELSE IF isFile(fullPath, fsNow) /\ endsWithMp4(file)
             THEN [files |-> <<fullPath>> \o rest.files, listed |-> rest.listed]
             ELSE rest

scanEntries(dir, files, k, recursive, fsNow, bad) ==
    IF k > Len(files)
    THEN NoScan
    ELSE LET file == files[k]
             fullPath == join(dir, file)
             rest == scanEntries(dir, files, k + 1, recursive, fsNow, bad)
         IN  IF fullPath \in bad.statFail
             THEN NoScan
             ELSE IF isDirectory(joinDir(dir, file), fsNow) /\ recursive
             THEN LET sub == scanDirectory(joinDir(dir, file), recursive, fsNow, bad)
                  IN  [files |-> sub.files \o rest.files,
                       listed |-> sub.listed \o rest.listed]
             ELSE IF isFile(fullPath, fsNow) /\ endsWithMp4(file)
             THEN [files |-> <<fullPath>> \o rest.files, listed |-> rest.listed]
             ELSE rest

getMP4Files(directory, recursive, fsNow, bad) ==
    scanDirectory(directory, recursive, fsNow, bad)

\* ------------------------------------------------------------ analyzeVideo
\* analyzeVideo, lines 122-126: the companion output path of a video.
DeriveOutputPath(videoPath) ==
    LET baseName == basename(videoPath, ".MP4")
        baseNameLower == basename(videoPath, ".mp4")
        finalBaseName == IF ~SameString(baseName, videoPath)
                         THEN baseName ELSE baseNameLower
        directory == dirname(videoPath)
    IN  join(directory, finalBaseName \o <<".txt">>)

\* A pre-scan that strips the extension whatever the form of the path.
PreScanOutputPathStripped(file) ==
    join(dirname(file), SubSeq(file.name, 1, Len(file.name) - 1) \o <<".txt">>)

\* main, lines 304-307: the pre-scan's own copy of the derivation.
PreScanOutputPath(file) ==
    LET baseName == basename(file, ".MP4")
        baseNameLower == basename(file, ".mp4")
        finalBaseName == IF ~SameString(baseName, file)
                         THEN baseName ELSE baseNameLower
    IN  join(dirname(file), finalBaseName \o <<".txt">>)

\* The gate without the force option: an existing output always skips.
AlreadyAnalyzedIgnoringForce(videoPath, options, fsNow) ==
    fileExists(DeriveOutputPath(videoPath), fsNow)

\* The gate looking for the output under another suffix: it never finds it.
AlreadyAnalyzedWrongSuffix(videoPath, options, fsNow) ==
    /\ ~options.force
    /\ fileExists(join(dirname(videoPath), basename(videoPath, ".mp4") \o <<".text">>),
                  fsNow)

\* analyzeVideo, line 129: the gate.
AlreadyAnalyzed(videoPath, options, fsNow) ==
    ~options.force /\ fileExists(DeriveOutputPath(videoPath), fsNow)

SkippedResult(outputPath) ==
    [status |-> "skipped", reason |-> "Already analyzed", outputPath |-> outputPath]

SuccessResult(duration, outputPath) ==
    [status |-> "success", duration |-> duration, output |-> "stdout",
     outputPath |-> outputPath]

\* The ways execPromise rejects: the analyzer exits non-zero, the process
\* cannot be spawned, the output outgrows maxBuffer.
FailureKinds == {"nonzero-exit", "spawn-failure", "maxbuffer-exceeded"}

ErrorResult(kind) ==
    [status |-> "error", error |-> kind,
     stderr |-> IF kind = "nonzero-exit" THEN "stderr-text" ELSE ""]

\* The try/catch taking an overflow of the capture buffer for a success.
InvocationResultBufferOk(outcome, duration, outputPath) ==
    IF outcome \in {"ok", "maxbuffer-exceeded"}
    THEN SuccessResult(duration, outputPath)
    ELSE ErrorResult(outcome)

\* What the try/catch of analyzeVideo makes of the analyzer's outcome.
InvocationResult(outcome, duration, outputPath) ==
    IF outcome = "ok"
    THEN SuccessResult(duration, outputPath)
    ELSE ErrorResult(outcome)

\* result.file = fileName
WithFile(result, fileName) == result @@ [file |-> fileName]

\* results.unshift(result)
PushFront(results, result) == <<result>> \o results

\* results.push(result)
Push(results, result) == Append(results, result)

\* A property of an object, undefined when the object has none of that name.
Get(r, f) == IF f \in DOMAIN r THEN r[f] ELSE Undefined

\* --------------------------------------------------------- saveBatchReport
\* results.filter(r => r.status === status).length
CountStatus(results, status) ==
    Cardinality({k \in 1..Len(results) : results[k].status = status})

\* The summary counting errors under a status name no result carries.
SummaryTypo(results, totalDuration) ==
    [totalFiles |-> Len(results),
     successful |-> CountStatus(results, "success"),
     skipped |-> CountStatus(results, "skipped"),
     errors |-> CountStatus(results, "failed"),
     totalDuration |-> totalDuration]

Summary(results, totalDuration) ==
    [totalFiles |-> Len(results),
     successful |-> CountStatus(results, "success"),
     skipped |-> CountStatus(results, "skipped"),
     errors |-> CountStatus(results, "error"),
     totalDuration |-> totalDuration]

ReportEntry(r) ==
    [file |-> Get(r, "file"), status |-> Get(r, "status"),
     duration |-> Get(r, "duration"), outputPath |-> Get(r, "outputPath"),
     error |-> Get(r, "error")]

BuildReport(directory, results, options, totalDuration, clock) ==
    [timestamp |-> clock,
     directory |-> directory,
     options |-> options,
     summary |-> Summary(results, totalDuration),
     results |-> [k \in 1..Len(results) |-> ReportEntry(results[k])]]

ReportPath(directory, clock) == join(Segments(directory), ReportName(clock))

\* ------------------------------------------------------------------ state
VARIABLES
    options,        \* parseArgs(): delay, frameSkip, force, recursive, directory
    rootKind,       \* what fs.stat(targetDir) finds: "dir", "file" or "missing"
    fs,             \* the regular files that exist
    now,            \* Date.now()
    run,            \* which run of the command this is
    pc,             \* where main() stands
    exitCode,       \* the process exit code, -1 while running
    outcome,        \* how the run ended
    mp4Files,       \* main: the discovered files, in discovery order
    listed,         \* the directories readdir was called on in this run
    filesToProcess, \* main: the pre-scan's "to analyze" list
    filesToSkip,    \* main: the pre-scan's "to skip" list
    i,              \* main: the loop index
    results,        \* main: the JobResults
    progressBar,    \* the ProgressBar object
    startTime,      \* main: when the loop started
    invoked,        \* the videos handed to the analyzer in this run, in order
    ended,          \* how each of these invocations ended, in the same order
    written,        \* the reports written in this run: path and content
    printed,        \* the counts of the console summary, once it is printed
    fault,          \* the readdir and stat failures this run's scan met
    prev            \* the previous run: how it ended, what it discovered, what failed

vars == <<options, rootKind, fs, now, run, pc, exitCode, outcome, mp4Files,
          listed, filesToProcess, filesToSkip, i, results, progressBar,
          startTime, invoked, ended, written, printed, fault, prev>>

\* main, line 254
targetDir == IF options.directory = Null THEN Cwd ELSE options.directory

root == Segments(targetDir)

\* The ETA part of a progress line: empty, or the estimated remaining time in
\* seconds as the fraction num / den (the clock counts milliseconds).
NoEta == [shown |-> FALSE, num |-> 0, den |-> 1]

NoProgressBar ==
    [total |-> 0, current |-> 0, startTime |-> 0, completedTimes |-> <<>>,
     eta |-> NoEta]

\* new ProgressBar(total)
NewProgressBar(total, clock) ==
    [total |-> total, current |-> 0, startTime |-> clock, completedTimes |-> <<>>,
     eta |-> NoEta]

\* The estimate that counts the current item among the remaining ones.
EtaRemainingPlusOne(bar, current, clock) ==
    IF current > 0
    THEN [shown |-> TRUE,
          num |-> (bar.total - current + 1) * (clock - bar.startTime),
          den |-> 1000 * current]
    ELSE NoEta

\* ProgressBar.update, lines 42-50: elapsedTime = (clock - startTime) / 1000,
\* averageTimePerItem = elapsedTime / current, estimatedRemainingTime =
\* remainingItems * averageTimePerItem, kept as one fraction.
Eta(bar, current, clock) ==
    IF current > 0
    THEN [shown |-> TRUE,
          num |-> (bar.total - current) * (clock - bar.startTime),
          den |-> 1000 * current]
    ELSE NoEta

\* The update that shows one item more than it is given.
updateOffByOne(bar, current, clock) ==
    [bar EXCEPT !.current = current + 1, !.eta = Eta(bar, current + 1, clock)]

\* ProgressBar.update(current, message) called when Date.now() is clock
update(bar, current, clock) ==
    [bar EXCEPT !.current = current, !.eta = Eta(bar, current, clock)]

\* ProgressBar.recordCompletion(duration)
recordCompletion(bar, duration) ==
    [bar EXCEPT !.completedTimes = Append(@, duration)]

\* Nothing of the console summary is printed yet.
NoSummary == [shown |-> FALSE]

\* main, lines 385-394: the counts the console summary shows.
ConsoleSummary(rs) ==
    [shown |-> TRUE,
     successCount |-> CountStatus(rs, "success"),
     skippedCount |-> CountStatus(rs, "skipped"),
     errorCount |-> CountStatus(rs, "error")]

\* The state of a process that has just started main().
FreshRun ==
    /\ pc = "validate"
    /\ exitCode = -1
    /\ outcome = "Running"
    /\ mp4Files = <<>>
    /\ listed = <<>>
    /\ filesToProcess = <<>>
    /\ filesToSkip = <<>>
    /\ i = 0
    /\ results = <<>>
    /\ progressBar = NoProgressBar
    /\ startTime = 0
    /\ invoked = <<>>
    /\ ended = <<>>
    /\ written = <<>>
    /\ printed = NoSummary
    /\ fault = NoFault

\* The same, of the next state.
FreshRunNext ==
    /\ pc' = "validate"
    /\ exitCode' = -1
    /\ outcome' = "Running"
    /\ mp4Files' = <<>>
    /\ listed' = <<>>
    /\ filesToProcess' = <<>>
    /\ filesToSkip' = <<>>
    /\ i' = 0
    /\ results' = <<>>
    /\ progressBar' = NoProgressBar
    /\ startTime' = 0
    /\ invoked' = <<>>
    /\ ended' = <<>>
    /\ written' = <<>>
    /\ printed' = NoSummary
    /\ fault' = NoFault

Init ==
    /\ options \in [delay : {0}, frameSkip : {30}, force : BOOLEAN,
                    recursive : {TRUE}, directory : DirectoryArgs]
    /\ rootKind \in {"dir", "file", "missing"}
    /\ fs \in IF rootKind = "dir"
              THEN { videos \cup texts :
                       videos \in { v \in SUBSET VideoUniverse(root) :
                                      Cardinality(v) <= MaxFiles },
                       texts \in SUBSET TxtUniverse(root) }
              ELSE {{}}
    /\ now = 0
    /\ run = 1
    /\ prev = [outcome |-> "None", files |-> <<>>, failed |-> {}]
    /\ FreshRun

\* process.exit(code)
Exit(code, how) ==
    /\ pc' = "exited"
    /\ exitCode' = code
    /\ outcome' = how

\* ----------------------------------------------------------------- main()
\* The validation without the isDirectory test.
ValidRootNoDirCheck(kind) == kind # "missing"

\* main, lines 261-271: the target must be a directory.
ValidRoot(kind) == kind = "dir"

Validate ==
    /\ pc = "validate"
    /\ IF ValidRoot(rootKind)
       THEN /\ pc' = "discover"
            /\ UNCHANGED <<exitCode, outcome>>
       ELSE Exit(1, IF rootKind = "missing" THEN "NotFound" ELSE "NotDirectory")
    /\ UNCHANGED <<options, rootKind, fs, now, run, mp4Files, listed,
                   filesToProcess, filesToSkip, i, results, progressBar,
                   startTime, invoked, written, prev>>
    /\ UNCHANGED <<ended, printed, fault>>

\* The empty-scan test that never holds.
NoCandidatesNever(files) == Len(files) < 0

\* main, line 285
NoCandidates(files) == Len(files) = 0

\* main, lines 283-288: the scan, then the exit when it found nothing.  On a
\* target that is no directory readdir itself fails.
Discover ==
    /\ pc = "discover"
    /\ \E bad \in Faults(root, fs) :
         LET met == IF rootKind = "dir" THEN bad
                    ELSE [bad EXCEPT !.unreadable = @ \cup {root}]
             scan == getMP4Files(root, options.recursive, fs, met)
         IN  /\ mp4Files' = scan.files
             /\ fault' = met
             /\ listed' = scan.listed
             /\ IF NoCandidates(scan.files)
                THEN Exit(0, "NoFiles")
                ELSE /\ pc' = "prescan"
                     /\ UNCHANGED <<exitCode, outcome>>
    /\ UNCHANGED <<options, rootKind, fs, now, run, filesToProcess, filesToSkip,
                   i, results, progressBar, startTime, invoked, written, prev>>
    /\ UNCHANGED <<ended, printed>>

\* main, line 310: the pre-scan's decision for one file.
PreScanSkips(file, opts, fsNow) ==
    fileExists(PreScanOutputPath(file), fsNow) /\ ~opts.force

PreScanEntry(file) == [path |-> file, relativePath |-> relative(root, file)]

\* The all-analysed test that never holds.
NothingToProcessNever(toProcess) == Len(toProcess) < 0

\* main, line 333
NothingToProcess(toProcess) == Len(toProcess) = 0

\* main, lines 298-358: the preview lists, the exit when every file is already
\* analysed, and the set-up of the loop.
PreScan ==
    /\ pc = "prescan"
    /\ LET toSkip == SelectSeq(mp4Files, LAMBDA f : PreScanSkips(f, options, fs))
           toProcess == SelectSeq(mp4Files, LAMBDA f : ~PreScanSkips(f, options, fs))
       IN  /\ filesToSkip' = [k \in 1..Len(toSkip) |-> PreScanEntry(toSkip[k])]
           /\ filesToProcess' = [k \in 1..Len(toProcess) |-> PreScanEntry(toProcess[k])]
           /\ IF NothingToProcess(toProcess)
              THEN /\ Exit(0, "AllAnalyzed")
                   /\ UNCHANGED <<progressBar, startTime>>
              ELSE /\ pc' = "loop"
                   /\ progressBar' = NewProgressBar(Len(mp4Files), now)
                   /\ startTime' = now
                   /\ UNCHANGED <<exitCode, outcome>>
    /\ UNCHANGED <<options, rootKind, fs, now, run, mp4Files, listed, i, results,
                   invoked, written, prev>>
    /\ UNCHANGED <<ended, printed, fault>>

\* The loop stopping one file early.
LoopContinuesShort(idx, files) == idx < Len(files) - 1

\* main, line 360: i < mp4Files.length
LoopContinues(idx, files) == idx < Len(files)

\* The loop calling analyzeVideo without await: the analyzer is started and
\* the loop goes to the next file at once.
GateNoAwait ==
    /\ pc = "loop"
    /\ LoopContinues(i, mp4Files)
    /\ LET videoPath == mp4Files[i + 1]
           fileName == relative(root, videoPath)
           outputPath == DeriveOutputPath(videoPath)
       IN  IF AlreadyAnalyzed(videoPath, options, fs)
           THEN /\ results' = Push(results, WithFile(SkippedResult(outputPath), fileName))
                /\ UNCHANGED invoked
           ELSE /\ invoked' = Append(invoked, videoPath)
                /\ UNCHANGED results
    /\ i' = i + 1
    /\ progressBar' = update(progressBar, i, now)
    /\ UNCHANGED <<options, rootKind, fs, now, run, pc, exitCode, outcome, mp4Files,
                   listed, filesToProcess, filesToSkip, startTime, written, prev>>
    /\ UNCHANGED <<ended, printed, fault>>

\* main, lines 360-368, and analyzeVideo up to the await of the analyzer: the
\* progress update and the gate.  A skipped file is done in this step.
Gate ==
    /\ pc = "loop"
    /\ LoopContinues(i, mp4Files)
    /\ LET videoPath == mp4Files[i + 1]
           fileName == relative(root, videoPath)
           outputPath == DeriveOutputPath(videoPath)
       IN  IF AlreadyAnalyzed(videoPath, options, fs)
           THEN /\ results' = Push(results, WithFile(SkippedResult(outputPath), fileName))
                /\ i' = i + 1
                /\ UNCHANGED <<pc, invoked>>
           ELSE /\ pc' = "invoke"
                /\ invoked' = Append(invoked, videoPath)
                /\ UNCHANGED <<results, i>>
    /\ progressBar' = update(progressBar, i, now)
    /\ UNCHANGED <<options, rootKind, fs, now, run, exitCode, outcome, mp4Files,
                   listed, filesToProcess, filesToSkip, startTime, written, prev>>
    /\ UNCHANGED <<ended, printed, fault>>

\* analyzeVideo, lines 136-155, and main, lines 367-374: the analyzer ends
\* after some time; it writes its output file when it succeeds.
AnalyzerReturns ==
    /\ pc = "invoke"
    /\ \E how \in {"ok"} \cup FailureKinds :
         LET d == AnalyzerTime
             videoPath == mp4Files[i + 1]
             fileName == relative(root, videoPath)
             outputPath == DeriveOutputPath(videoPath)
             result == WithFile(InvocationResult(how, d, outputPath), fileName)
         IN  /\ now' = now + d
             /\ fs' = IF how = "ok" THEN fs \cup {outputPath} ELSE fs
             /\ results' = Push(results, result)
             /\ ended' = Append(ended, how)
             /\ progressBar' = IF result.status = "success"
                               THEN recordCompletion(progressBar, result.duration)
                               ELSE progressBar
    /\ i' = i + 1
    /\ pc' = "loop"
    /\ UNCHANGED <<options, rootKind, run, exitCode, outcome, mp4Files, listed,
                   filesToProcess, filesToSkip, startTime, invoked, written, prev>>
    /\ UNCHANGED <<printed, fault>>

\* main, line 377: the loop is over.
LoopEnd ==
    /\ pc = "loop"
    /\ ~LoopContinues(i, mp4Files)
    /\ progressBar' = update(progressBar, Len(mp4Files), now)
    /\ pc' = "save"
    /\ UNCHANGED <<options, rootKind, fs, now, run, exitCode, outcome, mp4Files,
                   listed, filesToProcess, filesToSkip, i, results, startTime,
                   invoked, written, prev>>
    /\ UNCHANGED <<ended, printed, fault>>

\* main, lines 379-415, and main().catch: the report is written and the
\* summary printed, or fs.writeFile fails and the fatal handler exits with 1.
SaveReport ==
    /\ pc = "save"
    /\ LET totalDuration == now - startTime
           report == BuildReport(targetDir, results, options, totalDuration, now)
           reportPath == ReportPath(targetDir, now)
       IN  \E writeOk \in BOOLEAN :
             IF writeOk
             THEN /\ fs' = fs \cup {reportPath}
                  /\ written' = Append(written, [path |-> reportPath,
                                                 report |-> report,
                                                 replaced |-> fileExists(reportPath, fs)])
                  /\ printed' = ConsoleSummary(results)
                  /\ Exit(0, "Completed")
             ELSE /\ Exit(1, "Fatal")
                  /\ UNCHANGED <<fs, written, printed>>
    /\ UNCHANGED <<options, rootKind, now, run, mp4Files, listed, filesToProcess,
                   filesToSkip, i, results, progressBar, startTime, invoked, prev>>
    /\ UNCHANGED <<ended, fault>>

\* The handler that prints its message and does not exit.
InterruptWithoutExit ==
    /\ pc # "exited"
    /\ outcome = "Running"
    /\ outcome' = "Interrupted"
    /\ UNCHANGED <<options, rootKind, fs, now, run, pc, exitCode, mp4Files, listed,
                   filesToProcess, filesToSkip, i, results, progressBar,
                   startTime, invoked, ended, written, printed, fault, prev>>

\* process.on('SIGINT'), lines 418-421
Interrupt ==
    /\ pc # "exited"
    /\ Exit(0, "Interrupted")
    /\ UNCHANGED <<options, rootKind, fs, now, run, mp4Files, listed,
                   filesToProcess, filesToSkip, i, results, progressBar,
                   startTime, invoked, written, prev>>
    /\ UNCHANGED <<ended, printed, fault>>

\* The same command is run again over the same directory, after a run that
\* ended by itself.
Restart ==
    /\ pc = "exited"
    /\ outcome # "Interrupted"
    /\ run < MaxRuns
    /\ run' = run + 1
    /\ prev' = [outcome |-> outcome,
                files |-> mp4Files,
                failed |-> { mp4Files[k] : k \in { j \in 1..Len(results) :
                                                    results[j].status = "error" } }]
    /\ FreshRunNext
    /\ UNCHANGED <<options, rootKind, fs, now>>

Next ==
    \/ Validate
    \/ Discover
    \/ PreScan
    \/ Gate
    \/ AnalyzerReturns
    \/ LoopEnd
    \/ SaveReport
    \/ Interrupt
    \/ Restart

Spec == Init /\ [][Next]_vars

\* Date.now() reads the wall clock, which is not monotonic: between two runs
\* the system clock is set back.
ClockStep ==
    /\ pc = "exited"
    /\ run < MaxRuns
    /\ \E t \in 0..(now - 1) : now' = t
    /\ UNCHANGED <<options, rootKind, fs, run, pc, exitCode, outcome, mp4Files,
                   listed, filesToProcess, filesToSkip, i, results, progressBar,
                   startTime, invoked, ended, written, printed, fault, prev>>

NextClock ==
    \/ Next
    \/ ClockStep

\* The runs under a wall clock that may be set back.
SpecClock == Init /\ [][NextClock]_vars

\* ------------------------------------------- the progress bar taken alone
\* main, lines 356-377, reduced to the calls of the ProgressBar: the bar is
\* constructed for some total at some clock reading, then update(i) and one
\* item taking some time alternate, and update(total) ends the loop.
InitEta ==
    /\ options = [delay |-> 0, frameSkip |-> 30, force |-> FALSE,
                  recursive |-> TRUE, directory |-> Null]
    /\ rootKind = "dir"
    /\ fs = {}
    /\ run = 1
    /\ prev = [outcome |-> "None", files |-> <<>>, failed |-> {}]
    /\ exitCode = -1
    /\ outcome = "Running"
    /\ mp4Files = <<>>
    /\ listed = <<>>
    /\ filesToProcess = <<>>
    /\ filesToSkip = <<>>
    /\ i = 0
    /\ results = <<>>
    /\ invoked = <<>>
    /\ ended = <<>>
    /\ written = <<>>
    /\ printed = NoSummary
    /\ fault = NoFault
    /\ pc = "update"
    /\ now \in 0..MaxItemTime
    /\ startTime = now
    /\ \E total \in 1..MaxTotal : progressBar = NewProgressBar(total, now)

\* main, lines 364 and 377: progressBar.update(i, ...)
EtaUpdate ==
    /\ pc = "update"
    /\ progressBar' = update(progressBar, i, now)
    /\ pc' = IF i < progressBar.total THEN "item" ELSE "done"
    /\ UNCHANGED <<options, rootKind, fs, now, run, exitCode, outcome, mp4Files,
                   listed, filesToProcess, filesToSkip, i, results, startTime,
                   invoked, ended, written, printed, fault, prev>>

\* main, lines 366-372: one item is processed and its duration recorded.
EtaItem ==
    /\ pc = "item"
    /\ \E d \in 0..MaxItemTime :
         /\ now' = now + d
         /\ progressBar' = recordCompletion(progressBar, d)
    /\ i' = i + 1
    /\ pc' = "update"
    /\ UNCHANGED <<options, rootKind, fs, run, exitCode, outcome, mp4Files,
                   listed, filesToProcess, filesToSkip, results, startTime,
                   invoked, ended, written, printed, fault, prev>>

NextEta == EtaUpdate \/ EtaItem

SpecEta == InitEta /\ [][NextEta]_vars

\* ----------------------------------------------------------------- claims
EndedByItself == pc = "exited" /\ outcome # "Interrupted"

FileOf(k) == relative(root, mp4Files[k])

OnePerFile ==
    /\ Len(results) = Len(mp4Files)
    /\ \A k \in 1..Len(results) : results[k].file = FileOf(k)

HasStatus(status) == \E k \in 1..Len(results) : results[k].status = status

FailedInvocations == { k \in 1..Len(ended) : ended[k] \in FailureKinds }

\* C2: an analyzer failure of any kind leaves an error JobResult for its file
\* and never ends the run; a run with a failure that ends by itself has one
\* JobResult per discovered file, every file not skipped was handed to the
\* analyzer, and the run reached the report write.
C2_FailureDoesNotAbort ==
    /\ \A k \in FailedInvocations :
         \E j \in 1..Len(results) :
            /\ j <= Len(mp4Files)
            /\ mp4Files[j] = invoked[k]
            /\ results[j].status = "error"
            /\ results[j].error = ended[k]
    /\ FailedInvocations # {} =>
         /\ pc \in {"loop", "invoke", "save", "exited"}
         /\ outcome \in {"Running", "Completed", "Fatal", "Interrupted"}
    /\ (EndedByItself /\ FailedInvocations # {}) =>
         /\ OnePerFile
         /\ \A j \in 1..Len(results) :
              \/ results[j].status = "skipped"
              \/ \E k \in 1..Len(invoked) : invoked[k] = mp4Files[j]
         /\ Len(invoked) = Len(ended)
         /\ outcome = "Completed" => Len(written) = 1

C2_Witness ==
    /\ EndedByItself
    /\ Len(results) = 2
    /\ results[1].status = "error"
    /\ results[1].error = "maxbuffer-exceeded"
    /\ results[2].status = "success"
    /\ Len(written) = 1

\* A second or later run without force, after a run that ended by itself past
\* the pre-scan, over the same discovered files.
SameRerun ==
    /\ run > 1
    /\ ~options.force
    /\ prev.outcome \in {"Completed", "Fatal", "AllAnalyzed"}
    /\ pc \notin {"validate", "discover"}
    /\ mp4Files = prev.files

GateStep == pc = "loop" /\ LoopContinues(i, mp4Files) /\ pc' # "exited"

\* C4: the gate skips a file exactly when its derived output path exists at
\* the check and force is not set; a skipped file gets a skipped JobResult, no
\* invocation and no recorded duration, any other file goes to the analyzer;
\* with force no JobResult is ever skipped, and the tracker holds one duration
\* per success.
C4_Gate ==
    /\ [](options.force => ~HasStatus("skipped"))
    /\ [](Len(progressBar.completedTimes) = CountStatus(results, "success"))
    /\ [][GateStep =>
            LET videoPath == mp4Files[i + 1]
                skip == fileExists(DeriveOutputPath(videoPath), fs) /\ ~options.force
            IN  IF skip
                THEN /\ Len(results') = Len(results) + 1
                     /\ SubSeq(results', 1, Len(results)) = results
                     /\ results'[Len(results')].status = "skipped"
                     /\ results'[Len(results')].file = relative(root, videoPath)
                     /\ invoked' = invoked
                     /\ progressBar'.completedTimes = progressBar.completedTimes
                     /\ pc' = "loop"
                ELSE /\ results' = results
                     /\ invoked' = Append(invoked, videoPath)
                     /\ pc' = "invoke"]_vars

C4_Witness ==
    /\ ~options.force
    /\ Len(results) = 2
    /\ results[1].status = "skipped"
    /\ results[2].status = "success"
    /\ Len(invoked) = 1
    /\ Len(progressBar.completedTimes) = 1

\* The output path the specification gives: the extension goes, .txt comes.
StrippedOutputPath(f) ==
    Path(f.dir, SubSeq(f.name, 1, Len(f.name) - 1) \o <<".txt">>)

\* C5: for every discovered <dir>/<base>.mp4 or <dir>/<base>.MP4 the derived
\* output path is <dir>/<base>.txt, for every form of the scan root.
C5_AsClaimed ==
    \A k \in 1..Len(mp4Files) :
        mp4Files[k].name[Len(mp4Files[k].name)] \in {".mp4", ".MP4"} =>
            DeriveOutputPath(mp4Files[k]) = StrippedOutputPath(mp4Files[k])

\* C6: the k-th JobResult in memory and the k-th entry of the written report
\* are those of the k-th discovered file.
C6_Order ==
    /\ Len(results) <= Len(mp4Files)
    /\ \A k \in 1..Len(results) : results[k].file = FileOf(k)
    /\ \A w \in 1..Len(written) :
         LET entries == written[w].report.results
         IN  /\ Len(entries) = Len(mp4Files)
             /\ \A k \in 1..Len(entries) :
                  /\ entries[k].file = FileOf(k)
                  /\ entries[k].status = results[k].status

C6_Witness ==
    /\ Len(written) = 1
    /\ Len(written[1].report.results) = 2
    /\ written[1].report.results[1].status = "success"
    /\ written[1].report.results[2].status = "skipped"

SummaryAddsUp(report) ==
    /\ report.summary.successful + report.summary.skipped + report.summary.errors
         = report.summary.totalFiles
    /\ report.summary.totalFiles = Len(report.results)
    /\ Len(report.results) = Len(results)

\* C7: in the report built from the loop's results, and in every report
\* written, successful + skipped + errors = totalFiles = the number of results.
C7_Summary ==
    /\ pc = "save" =>
         SummaryAddsUp(BuildReport(targetDir, results, options, now - startTime, now))
    /\ \A w \in 1..Len(written) : SummaryAddsUp(written[w].report)

C7_Witness ==
    /\ Len(written) = 1
    /\ written[1].report.summary.errors = 1
    /\ written[1].report.summary.successful = 1
    /\ written[1].report.summary.totalFiles = 2

C9_NoFiles ==
    (listed # <<>> /\ mp4Files = <<>>) =>
        /\ pc = "exited"
        /\ exitCode = 0
        /\ outcome = "NoFiles"
        /\ invoked = <<>>
        /\ results = <<>>
        /\ written = <<>>

C9_Witness ==
    /\ pc = "exited"
    /\ outcome = "NoFiles"
    /\ exitCode = 0
    /\ listed = <<root>>
    /\ fs # {}

\* C10: with a target that is missing or no directory, the run lists no
\* directory, invokes no analyzer and creates no file, and ends with exit
\* code 1 unless it is interrupted first.
C10_InvalidRoot ==
    rootKind # "dir" =>
        /\ pc \in {"validate", "exited"}
        /\ listed = <<>>
        /\ mp4Files = <<>>
        /\ invoked = <<>>
        /\ written = <<>>
        /\ fs = {}
        /\ EndedByItself => exitCode = 1 /\ outcome \in {"NotFound", "NotDirectory"}

C10_Witness ==
    /\ rootKind = "file"
    /\ pc = "exited"
    /\ exitCode = 1
    /\ outcome = "NotDirectory"

\* C11: when the report write fails after the loop, the failure is surfaced,
\* the results still hold one JobResult per discovered file, and the run
\* reaches the console summary, whose counts are those of the results.
C11_AsClaimed ==
    (pc = "exited" /\ outcome = "Fatal") =>
        /\ exitCode = 1
        /\ OnePerFile
        /\ printed = ConsoleSummary(results)

\* C12: an interrupt can arrive wherever the run stands; it ends the process
\* at once with exit code 0, and from then on this run starts no analyzer
\* invocation, records no result and writes no report.
C12_Interrupt ==
    /\ [](pc # "exited" => ENABLED Interrupt)
    /\ [](outcome = "Interrupted" => pc = "exited" /\ exitCode = 0 /\ written = <<>>)
    /\ [][(outcome' = "Interrupted" /\ run' = run) =>
            /\ pc' = "exited"
            /\ invoked' = invoked
            /\ ended' = ended
            /\ results' = results
            /\ written' = written
            /\ fs' = fs]_vars

C12_Witness ==
    /\ pc = "exited"
    /\ outcome = "Interrupted"
    /\ Len(results) = 1
    /\ Len(invoked) = 2
    /\ Len(ended) = 1

\* The scan of this run is over.
Scanned == listed # <<>>

InSeq(x, seq) == \E k \in 1..Len(seq) : seq[k] = x

\* The video files of directory d that exist, in listing order.
VideosIn(d) ==
    LET names == SelectSeq(readdir(d, fs),
                           LAMBDA e : isFile(join(d, e), fs) /\ endsWithMp4(e))
    IN  [k \in 1..Len(names) |-> join(d, names[k])]

\* C13: when the listing of the subdirectory fails (and nothing else does),
\* the scan goes on: the subdirectory was tried and gives no file, and the
\* discovered files are the videos of the parent directory, in listing order,
\* those listed after the subdirectory included.
C13_UnreadableSubdir ==
    (Scanned /\ fault = [unreadable |-> {joinDir(root, SubDir)}, statFail |-> {}]) =>
        /\ mp4Files = VideosIn(root)
        /\ \A k \in 1..Len(mp4Files) : mp4Files[k].dir = root
        /\ isDirectory(joinDir(root, SubDir), fs) =>
             listed = <<root, joinDir(root, SubDir)>>

C13_Witness ==
    /\ Scanned
    /\ fault = [unreadable |-> {joinDir(root, SubDir)}, statFail |-> {}]
    /\ Path(joinDir(root, SubDir), <<"b", ".mp4">>) \in fs
    /\ mp4Files = <<Path(root, <<"a", ".MP4">>)>>
    /\ pc = "prescan"

\* C14: no run writes its report to a path an earlier run wrote its report
\* to, also when both reach the write at the same clock reading.
C14_AsClaimed ==
    \A w \in 1..Len(written) : ~written[w].replaced

\* The analyzer invocations started and not yet returned.
InFlight == Len(invoked) - Len(ended)

\* C15: at most one analyzer invocation is in flight, and only while main
\* awaits it, for the file of the current iteration, with one JobResult for
\* each earlier file; no file is handed to the analyzer twice in a run; the
\* invocations that returned are as many as the success and error results, so
\* are all invocations of a run that ended by itself.
C15_Sequential ==
    /\ InFlight \in {0, 1}
    /\ pc \in {"loop", "save"} => InFlight = 0
    /\ pc = "invoke" =>
         /\ InFlight = 1
         /\ invoked[Len(invoked)] = mp4Files[i + 1]
    /\ pc \in {"loop", "invoke"} => Len(results) = i
    /\ \A j, k \in 1..Len(invoked) : invoked[j] = invoked[k] => j = k
    /\ \A k \in 1..Len(invoked) : InSeq(invoked[k], mp4Files)
    /\ Len(ended) = CountStatus(results, "success") + CountStatus(results, "error")
    /\ EndedByItself => InFlight = 0

C15_Witness ==
    /\ EndedByItself
    /\ Len(invoked) = 2
    /\ Len(results) = 2
    /\ results[1].status = "success"
    /\ results[2].status = "error"

\* A step of main that calls progressBar.update.
UpdateStep == pc = "loop" /\ pc' \in {"loop", "invoke", "save"}

\* C16: once constructed, the progress bar's total is the number of discovered
\* files and does not change during the run; current stays within 0..total
\* and never decreases during a run; every update call sets current to the
\* number of JobResults recorded so far; current equals total only after the
\* loop, with a JobResult for every file, and no update follows.
C16_Progress ==
    /\ [](progressBar # NoProgressBar =>
            /\ progressBar.total = Len(mp4Files)
            /\ progressBar.current \in 0..progressBar.total
            /\ progressBar.current = progressBar.total =>
                 /\ pc \in {"save", "exited"}
                 /\ Len(results) = progressBar.total)
    /\ [](outcome \in {"Completed", "Fatal"} =>
            progressBar.current = progressBar.total)
    /\ [][run' = run =>
            /\ progressBar'.current >= progressBar.current
            /\ progressBar # NoProgressBar => progressBar'.total = progressBar.total
            /\ UpdateStep => progressBar'.current = Len(results)
            /\ (progressBar # NoProgressBar
                  /\ progressBar.current = progressBar.total) =>
                 progressBar' = progressBar]_vars

C16_Witness ==
    /\ pc = "save"
    /\ progressBar.total = 2
    /\ progressBar.current = 2
    /\ HasStatus("skipped")
    /\ HasStatus("error")

\* Every item processed so far took the same time.
SameDurations ==
    \A j, k \in 1..Len(progressBar.completedTimes) :
        progressBar.completedTimes[j] = progressBar.completedTimes[k]

\* C17: no ETA is shown while current is 0; an update with current > 0 shows
\* (total - current) * (elapsed / current) with elapsed the seconds since the
\* bar was constructed; when every item so far took the same time, the ETA of
\* an update is not above the ETA of the update before it; the ETA of the
\* last update, where current is total, is 0.
C17_Eta ==
    /\ [](progressBar.current = 0 => ~progressBar.eta.shown)
    /\ [][pc = "update" =>
            /\ progressBar'.eta.shown <=> progressBar'.current > 0
            /\ progressBar'.eta.shown =>
                 progressBar'.eta.num * 1000 * progressBar'.current
                   = (progressBar.total - progressBar'.current)
                       * (now - progressBar.startTime) * progressBar'.eta.den]_vars
    /\ [][(pc = "update" /\ progressBar.eta.shown /\ SameDurations) =>
            progressBar'.eta.num * progressBar.eta.den
              <= progressBar.eta.num * progressBar'.eta.den]_vars
    /\ [](pc = "done" => progressBar.eta.shown /\ progressBar.eta.num = 0)

C17_Witness ==
    /\ pc = "item"
    /\ progressBar.total = 4
    /\ progressBar.current = 3
    /\ progressBar.completedTimes = <<2, 2, 2>>
    /\ progressBar.eta = [shown |-> TRUE, num |-> 6, den |-> 3000]

\* The JobResult r carries the field f.
Carries(r, f) == f \in DOMAIN r

\* C18, as stated: every JobResult has one of the three statuses, a duration
\* exactly when it is a success, an error message and the captured diagnostic
\* text exactly when it is an error, a reason exactly when it is skipped, and
\* always the relative path and the output path.
C18_AsClaimed ==
    \A k \in 1..Len(results) :
        LET r == results[k]
        IN  /\ r.status \in {"success", "skipped", "error"}
            /\ Carries(r, "duration") <=> r.status = "success"
            /\ Carries(r, "error") <=> r.status = "error"
            /\ Carries(r, "stderr") <=> r.status = "error"
            /\ Carries(r, "reason") <=> r.status = "skipped"
            /\ Carries(r, "file")
            /\ Carries(r, "outputPath")

\* The directory d was listed by the scan and its listing succeeded.
ListingSucceeded(d) == InSeq(d, listed) /\ d \notin fault.unreadable

\* C19, as stated: after discovery every regular file with a matching
\* extension whose own stat succeeds and whose directory was listed
\* successfully is among the discovered files, whatever happened to the stat
\* of the other entries of that directory.
C19_AsClaimed ==
    Scanned =>
        \A v \in fs :
            (endsWithMp4(v.name) /\ v \notin fault.statFail /\ ListingSucceeded(v.dir))
                => InSeq(v, mp4Files)

\* The pre-scan put the file into the list.
Previewed(file, list) == \E k \in 1..Len(list) : list[k].path = file

\* An earlier file of this run with the same derived output path succeeded.
OutputMadeEarlier(k) ==
    \E j \in 1..(k - 1) :
        /\ results[j].status = "success"
        /\ DeriveOutputPath(mp4Files[j]) = DeriveOutputPath(mp4Files[k])

====
